---------------------------- MODULE Spec2Model ----------------------------
(***************************************************************************)
(* FopDollarBot: the USD lot ledger (UsdService), the rate service with    *)
(* its cache (CurrencyService) and the P&L notification throttle           *)
(* (NotificationService), as state machines.                               *)
(*                                                                         *)
(* Quantities and rates are JavaScript numbers in the source; here they    *)
(* are integers, so (a / amountUsd) * taxBaseUah is the exact quotient.    *)
(* A step of a call is one storage or provider operation: the points at    *)
(* which the source awaits, and so the points at which calls interleave.   *)
(***************************************************************************)
EXTENDS Integers, Sequences, FiniteSets, TLC

VARIABLES
  incomes,   \* the UsdIncome collection: lots in insertion order, index = _id
  sales,     \* the UsdSale collection, in insertion order
  call,      \* the addUsd / sellUsd calls in flight, one per call slot
  started,   \* the number of calls started so far
  now,       \* the clock, in hours
  ticks,     \* the number of times the clock has advanced
  cache,     \* the CurrencyCache collection: at most one entry per (provider, date)
  rcall,     \* the getNbuRate / getMonobankBuyRate calls in flight, one per slot
  rstarted,  \* the number of rate calls started so far
  userStates,  \* NotificationService.userStates: the Map's entry list
  stateObjs,   \* the UserNotificationState objects ever created, by reference
  check,       \* the checks in flight: 1 the scheduled sweep, 2 the manual test
  cronDone,    \* the scheduled time at which the cron job last fired
  sent,        \* the P&L notifications delivered, in order
  served,      \* per sweep time, the live-rate cache entries its valuations used
  tested       \* the number of manual tests started so far

ledgerVars == <<incomes, sales, call, started>>
rateVars == <<now, ticks, cache, rcall, rstarted>>
notifyVars == <<userStates, stateObjs, check, cronDone, sent, served, tested>>

vars == <<incomes, sales, call, started, now, ticks, cache, rcall, rstarted,
          userStates, stateObjs, check, cronDone, sent, served, tested>>

(***************************************************************************)
(* Bounds of the model.                                                    *)
(***************************************************************************)
MaxCalls == 3
MaxQty == 2
MaxRateCalls == 3
MaxTicks == 3
MaxTests == 1
MaxStateObjs == 2
Horizon == 12
SweepHorizon == 16

Owners == {1, 2}
Calls == {1, 2}
Quantities == 1..MaxQty
Dates == {1, 2}
Today == 2

RateError == 0

(***************************************************************************)
(* What the rate service can answer a ledger call.  In the ledger's        *)
(* specifications the providers are fixed: the primary (NBU) rate of a     *)
(* date is NbuRateOn(date), the secondary (Monobank) buy rate is one of    *)
(* MonoRates.  getNbuRate answers the primary rate or throws;              *)
(* getMonobankBuyRate answers the secondary rate or, falling back, the     *)
(* primary one for today, the primary one for any other date, or throws.   *)
(* RateInit and the rate actions below model the service itself.           *)
(***************************************************************************)
NbuRateOn(date) == 40 + date
MonoRates == {38, 39}

NbuRateOutcomes(date) == {NbuRateOn(date), RateError}

MonobankBuyRateOutcomes(date) ==
  IF date = Today THEN MonoRates \cup {NbuRateOn(date), RateError}
  ELSE {NbuRateOn(date), RateError}

Min(a, b) == IF a < b THEN a ELSE b

(***************************************************************************)
(* UsdService.getBalance: the sum of remainingUsd over the owner's lots    *)
(* that have remainingUsd > 0.                                             *)
(***************************************************************************)
RECURSIVE SumRemaining(_, _, _)
SumRemaining(docs, userId, i) ==
  IF i > Len(docs) THEN 0
  ELSE (IF docs[i].userId = userId /\ docs[i].remainingUsd > 0
          THEN docs[i].remainingUsd ELSE 0)
       + SumRemaining(docs, userId, i + 1)

getBalance(userId) == SumRemaining(incomes, userId, 1)

(***************************************************************************)
(* UsdIncome.find({userId, remainingUsd: {$gt: 0}}).sort({date: 1}): the   *)
(* matching lots by ascending date.  The storage fixes no order among      *)
(* lots of equal date, so every date-sorted order is a possible answer.    *)
(***************************************************************************)
Matching(userId) ==
  {i \in DOMAIN incomes : incomes[i].userId = userId /\ incomes[i].remainingUsd > 0}

\* the sort key reversed: newest lot first
DateOrderedDescending(a, b) == incomes[a].date >= incomes[b].date

DateOrdered(a, b) == incomes[a].date <= incomes[b].date

FifoOrders(userId) ==
  LET M == Matching(userId)
      n == Cardinality(M)
  IN {s \in [1..n -> M] :
        /\ \A j, k \in 1..n : j # k => s[j] # s[k]
        /\ \A j, k \in 1..n : j < k => DateOrdered(s[j], s[k])}

\* the documents the query hands to the caller: copies, each with its _id
Docs(order) ==
  [j \in 1..Len(order) |->
     [id |-> order[j],
      amountUsd |-> incomes[order[j]].amountUsd,
      remainingUsd |-> incomes[order[j]].remainingUsd,
      taxBaseUah |-> incomes[order[j]].taxBaseUah]]

(***************************************************************************)
(* The FIFO loop of sellUsd over the documents read.                       *)
(***************************************************************************)
\* the share taken as a share of what the lot still holds
TaxBaseForThisOfRemaining(amountToSellFromThis, income) ==
  (amountToSellFromThis * income.taxBaseUah) \div income.remainingUsd

TaxBaseForThis(amountToSellFromThis, income) ==
  (amountToSellFromThis * income.taxBaseUah) \div income.amountUsd

RECURSIVE Deduct(_, _, _, _)
Deduct(docs, j, remainingToSell, acc) ==
  IF j > Len(docs) \/ remainingToSell <= 0 THEN acc
  ELSE LET income == docs[j]
           amountToSellFromThis == Min(income.remainingUsd, remainingToSell)
       IN Deduct(docs, j + 1, remainingToSell - amountToSellFromThis,
                 [totalTaxBase |-> acc.totalTaxBase
                                    + TaxBaseForThis(amountToSellFromThis, income),
                  updatedIncomes |-> Append(acc.updatedIncomes,
                     [id |-> income.id,
                      remainingUsd |-> income.remainingUsd,
                      soldAmount |-> amountToSellFromThis])])

DeductFifo(docs, amountUsd) ==
  Deduct(docs, 1, amountUsd, [totalTaxBase |-> 0, updatedIncomes |-> <<>>])

(***************************************************************************)
(* CurrencyService: the clock, the cache and the rate calls.               *)
(***************************************************************************)
CACHE_DURATION_DAYS == 180
MONOBANK_CACHE_HOURS == 6
HoursPerDay == 24

StartHour == 6
TickSizes == {1, 5, CACHE_DURATION_DAYS * HoursPerDay - 1}

RCalls == {1, 2}

\* CurrencyService.getDateOnly: the calendar day of a time
getDateOnly(t) == t \div HoursPerDay

NoEntry == [provider |-> "none", date |-> 0, rate |-> 0, cachedAt |-> 0, expiresAt |-> 0]

\* the stored entry of a key, expired or not (the unique index allows one)
Stored(provider, date) ==
  IF \E e \in cache : e.provider = provider /\ e.date = date
    THEN CHOOSE e \in cache : e.provider = provider /\ e.date = date
    ELSE NoEntry

\* the filter with $gte for $gt
UnexpiredInclusive(e, t) == e.expiresAt >= t

\* the filter expiresAt: { $gt: new Date() } of both findOne queries
Unexpired(e, t) == e.expiresAt > t

\* CurrencyCache.findOne({provider, currencyCode, date, expiresAt: {$gt: now}})
findOne(provider, date) ==
  LET e == Stored(provider, date)
  IN IF e # NoEntry /\ Unexpired(e, now) THEN e ELSE NoEntry

\* a write that inserts a new entry beside the stored one
UpsertInsert(provider, date, rate, expiresAt) ==
  cache \cup {[provider |-> provider, date |-> date, rate |-> rate,
               cachedAt |-> now, expiresAt |-> expiresAt]}

\* findOneAndUpdate(key, {rate, cachedAt, expiresAt}, {upsert: true})
Upsert(provider, date, rate, expiresAt) ==
  {e \in cache : ~ (e.provider = provider /\ e.date = date)}
    \cup {[provider |-> provider, date |-> date, rate |-> rate,
           cachedAt |-> now, expiresAt |-> expiresAt]}

\* the long expiry mistaken for the short one
NbuExpiryShort(t) == t + MONOBANK_CACHE_HOURS

NbuExpiry(t) == t + CACHE_DURATION_DAYS * HoursPerDay

\* saveToCacheMonobank: the short expiry if the date is today at the save
MonobankExpiry(date, t) ==
  IF date = getDateOnly(t) THEN t + MONOBANK_CACHE_HOURS
  ELSE t + CACHE_DURATION_DAYS * HoursPerDay

IdleRate ==
  [pc |-> "idle", kind |-> "none", date |-> 0, rate |-> 0, result |-> RateError,
   source |-> "none", monoFailed |-> FALSE, primary |-> "none",
   seenMono |-> NoEntry, monoLookupAt |-> 0, seenNbu |-> NoEntry, nbuLookupAt |-> 0,
   savedAt |-> 0, live |-> FALSE, nbuRequests |-> 0, monoRequests |-> 0]

RateIdle ==
  /\ now = StartHour
  /\ ticks = 0
  /\ cache = {}
  /\ rcall = [r \in RCalls |-> IdleRate]
  /\ rstarted = 0

RFree(r) == rcall[r].pc \in {"idle", "done"} /\ rstarted < MaxRateCalls

\* the dates a caller can ask for: the handlers refuse dates in the future
RequestDates == {d \in {getDateOnly(now) - 1, getDateOnly(now)} : d >= 0}

\* the rate call throws
Throw(rc) == [rc EXCEPT !.pc = "done", !.result = RateError, !.source = "error"]

\* the cache lookup of getNbuRate: answer from the cache, or go to the API
NbuLookup(rc) ==
  LET cached == findOne("nbu", rc.date)
      looked == [rc EXCEPT !.seenNbu = Stored("nbu", rc.date), !.nbuLookupAt = now]
  IN IF cached # NoEntry
       THEN [looked EXCEPT !.pc = "done", !.result = cached.rate,
               !.source = "nbuCache", !.primary = "hit"]
       ELSE [looked EXCEPT !.pc = "nbuGet"]

\* getNbuRate(date) is called and its cache lookup answers
NbuStart(r, date) ==
  /\ RFree(r)
  /\ rstarted' = rstarted + 1
  /\ rcall' = [rcall EXCEPT ![r] =
                 NbuLookup([IdleRate EXCEPT !.kind = "nbu", !.date = date])]
  /\ UNCHANGED <<now, ticks, cache>>

\* the cache lookup of a getNbuRate called from inside getMonobankBuyRate
NbuFind(r) ==
  /\ rcall[r].pc = "nbuFind"
  /\ rcall' = [rcall EXCEPT ![r] = NbuLookup(rcall[r])]
  /\ UNCHANGED <<now, ticks, cache, rstarted>>

\* axios.get(NBU_API) answers with the USD rate of the date
NbuGet(r) ==
  /\ rcall[r].pc = "nbuGet"
  /\ rcall' = [rcall EXCEPT ![r].pc = "nbuSave", ![r].rate = NbuRateOn(rcall[r].date),
                 ![r].nbuRequests = rcall[r].nbuRequests + 1]
  /\ UNCHANGED <<now, ticks, cache, rstarted>>

\* axios.get(NBU_API) answers without USD, or fails: getNbuRate throws
NbuGetFails(r) ==
  /\ rcall[r].pc = "nbuGet"
  /\ rcall' = [rcall EXCEPT ![r] =
                 [Throw(rcall[r]) EXCEPT !.primary = "failed",
                    !.nbuRequests = rcall[r].nbuRequests + 1]]
  /\ UNCHANGED <<now, ticks, cache, rstarted>>

\* a save that stores the rate of a fallback under the Monobank key as well
NbuSaveAsLive(r) ==
  /\ rcall[r].pc = "nbuSave"
  /\ cache' =
       LET stored == Upsert("nbu", rcall[r].date, rcall[r].rate, NbuExpiry(now))
       IN IF rcall[r].live
            THEN {e \in stored : ~ (e.provider = "monobank" /\ e.date = rcall[r].date)}
                   \cup {[provider |-> "monobank", date |-> rcall[r].date,
                          rate |-> rcall[r].rate, cachedAt |-> now,
                          expiresAt |-> MonobankExpiry(rcall[r].date, now)]}
            ELSE stored
  /\ rcall' = [rcall EXCEPT ![r].pc = "done", ![r].result = rcall[r].rate,
                 ![r].source = "nbuApi", ![r].primary = "fetched", ![r].savedAt = now]
  /\ UNCHANGED <<now, ticks, rstarted>>

\* saveToCacheNbu stores the entry and getNbuRate returns the rate
NbuSave(r) ==
  /\ rcall[r].pc = "nbuSave"
  /\ cache' = Upsert("nbu", rcall[r].date, rcall[r].rate, NbuExpiry(now))
  /\ rcall' = [rcall EXCEPT ![r].pc = "done", ![r].result = rcall[r].rate,
                 ![r].source = "nbuApi", ![r].primary = "fetched", ![r].savedAt = now]
  /\ UNCHANGED <<now, ticks, rstarted>>

\* saveToCacheNbu rejects: getNbuRate throws
NbuSaveFails(r) ==
  /\ rcall[r].pc = "nbuSave"
  /\ rcall' = [rcall EXCEPT ![r] = [Throw(rcall[r]) EXCEPT !.primary = "failed"]]
  /\ UNCHANGED <<now, ticks, cache, rstarted>>

\* the cache lookup of getMonobankBuyRate for today: answer, or go to the API
MonoLookup(date) ==
  LET cached == findOne("monobank", date)
      looked == [IdleRate EXCEPT !.kind = "mono", !.date = date, !.live = TRUE,
                   !.seenMono = Stored("monobank", date), !.monoLookupAt = now]
  IN IF cached # NoEntry
       THEN [looked EXCEPT !.pc = "done", !.result = cached.rate,
               !.source = "monoCache"]
       ELSE [looked EXCEPT !.pc = "monoGet"]

\* a call for another day that takes the path of today
MonoStartOtherDayLive(r, date) ==
  /\ RFree(r)
  /\ date # getDateOnly(now)
  /\ rstarted' = rstarted + 1
  /\ rcall' = [rcall EXCEPT ![r] = MonoLookup(date)]
  /\ UNCHANGED <<now, ticks, cache>>

\* getMonobankBuyRate(date) is called for a date that is not today
MonoStartOtherDay(r, date) ==
  /\ RFree(r)
  /\ date # getDateOnly(now)
  /\ rstarted' = rstarted + 1
  /\ rcall' = [rcall EXCEPT ![r] =
                 NbuLookup([IdleRate EXCEPT !.kind = "mono", !.date = date])]
  /\ UNCHANGED <<now, ticks, cache>>

\* getMonobankBuyRate(date) is called for today and its cache lookup answers
MonoStartToday(r, date) ==
  /\ RFree(r)
  /\ date = getDateOnly(now)
  /\ rstarted' = rstarted + 1
  /\ rcall' = [rcall EXCEPT ![r] = MonoLookup(date)]
  /\ UNCHANGED <<now, ticks, cache>>

\* axios.get(MONOBANK_API) answers with a USD/UAH rateBuy
MonoGet(r, rateBuy) ==
  /\ rcall[r].pc = "monoGet"
  /\ rcall' = [rcall EXCEPT ![r].pc = "monoSave", ![r].rate = rateBuy,
                 ![r].monoRequests = rcall[r].monoRequests + 1]
  /\ UNCHANGED <<now, ticks, cache, rstarted>>

\* an answer without a quote treated as a transport failure
MonoGetNoQuoteFallsBack(r) ==
  /\ rcall[r].pc = "monoGet"
  /\ rcall' = [rcall EXCEPT ![r] =
                 [rcall[r] EXCEPT !.pc = "nbuFind",
                    !.monoRequests = rcall[r].monoRequests + 1]]
  /\ UNCHANGED <<now, ticks, cache, rstarted>>

\* the answer has no USD/UAH pair or no rateBuy: the Error is thrown on
MonoGetNoQuote(r) ==
  /\ rcall[r].pc = "monoGet"
  /\ rcall' = [rcall EXCEPT ![r] =
                 [Throw(rcall[r]) EXCEPT !.monoRequests = rcall[r].monoRequests + 1]]
  /\ UNCHANGED <<now, ticks, cache, rstarted>>

\* a catch block that throws the axios error on
OnAxiosErrorRethrow(rc) == Throw(rc)

\* what the catch block does with an axios error: getNbuRate(dateOnly)
OnAxiosError(rc) == [rc EXCEPT !.pc = "nbuFind"]

\* axios.get(MONOBANK_API) fails with a transport error
MonoGetFails(r) ==
  /\ rcall[r].pc = "monoGet"
  /\ rcall' = [rcall EXCEPT ![r] =
                 OnAxiosError([rcall[r] EXCEPT !.monoFailed = TRUE,
                                 !.monoRequests = rcall[r].monoRequests + 1])]
  /\ UNCHANGED <<now, ticks, cache, rstarted>>

\* saveToCacheMonobank stores the entry and the rate is returned
MonoSave(r) ==
  /\ rcall[r].pc = "monoSave"
  /\ cache' = Upsert("monobank", rcall[r].date, rcall[r].rate,
                     MonobankExpiry(rcall[r].date, now))
  /\ rcall' = [rcall EXCEPT ![r].pc = "done", ![r].result = rcall[r].rate,
                 ![r].source = "monoApi", ![r].savedAt = now]
  /\ UNCHANGED <<now, ticks, rstarted>>

\* saveToCacheMonobank rejects: not an axios error, so it is thrown on
MonoSaveFails(r) ==
  /\ rcall[r].pc = "monoSave"
  /\ rcall' = [rcall EXCEPT ![r] = Throw(rcall[r])]
  /\ UNCHANGED <<now, ticks, cache, rstarted>>

\* the TTL index on expiresAt removes the expired entries
TtlReap ==
  /\ \E e \in cache : e.expiresAt <= now
  /\ cache' = {e \in cache : e.expiresAt > now}
  /\ UNCHANGED <<now, ticks, rcall, rstarted>>

\* time passes
Tick(d) ==
  /\ ticks < MaxTicks
  /\ now' = now + d
  /\ ticks' = ticks + 1
  /\ UNCHANGED <<cache, rcall, rstarted>>

\* a step of a rate call under way; the provider quotes one of rates
RateStep(r, rates) ==
  \/ NbuFind(r)
  \/ NbuGet(r)
  \/ NbuGetFails(r)
  \/ NbuSave(r)
  \/ NbuSaveFails(r)
  \/ \E rateBuy \in rates : MonoGet(r, rateBuy)
  \/ MonoGetNoQuote(r)
  \/ MonoGetFails(r)
  \/ MonoSave(r)
  \/ MonoSaveFails(r)

RateCall(r) ==
  \/ \E date \in RequestDates :
       \/ NbuStart(r, date)
       \/ MonoStartOtherDay(r, date)
       \/ MonoStartToday(r, date)
  \/ RateStep(r, MonoRates)

NextRate ==
  /\ \/ RateCall(1)
     \/ TtlReap
     \/ \E d \in TickSizes : Tick(d)
  /\ UNCHANGED <<ledgerVars, notifyVars>>

\* two callers of the rate service at one time: their lookups, requests and
\* writes interleave
NextRace ==
  /\ \E r \in RCalls :
       \/ \E date \in RequestDates : NbuStart(r, date) \/ MonoStartToday(r, date)
       \/ RateStep(r, MonoRates)
  /\ UNCHANGED <<ledgerVars, notifyVars>>

(***************************************************************************)
(* Results and call records.                                               *)
(***************************************************************************)
NoResult ==
  [success |-> FALSE, kind |-> "none", amountUsd |-> 0, rate |-> 0, sellUah |-> 0,
   taxBaseUah |-> 0, profit |-> 0, newBalance |-> 0]

\* the insufficient-balance answer with the zeroed balance of the catch block
InsufficientResultZeroed(balance) ==
  [success |-> FALSE, kind |-> "insufficient", amountUsd |-> 0, rate |-> 0,
   sellUah |-> 0, taxBaseUah |-> 0, profit |-> 0, newBalance |-> 0]

InsufficientResult(balance) ==
  [success |-> FALSE, kind |-> "insufficient", amountUsd |-> 0, rate |-> 0,
   sellUah |-> 0, taxBaseUah |-> 0, profit |-> 0, newBalance |-> balance]

\* the answer of the catch block to an error thrown by a rate lookup: the
\* message carries the text of the error
RateErrorResult ==
  [success |-> FALSE, kind |-> "rate", amountUsd |-> 0, rate |-> 0, sellUah |-> 0,
   taxBaseUah |-> 0, profit |-> 0, newBalance |-> 0]

ErrorResult ==
  [success |-> FALSE, kind |-> "error", amountUsd |-> 0, rate |-> 0, sellUah |-> 0,
   taxBaseUah |-> 0, profit |-> 0, newBalance |-> 0]

IdleCall ==
  [op |-> "none", pc |-> "idle", userId |-> 0, amountUsd |-> 0, date |-> 0,
   rate |-> 0, totalTaxBase |-> 0, updatedIncomes |-> <<>>, k |-> 0,
   before |-> <<>>, salesBefore |-> 0, result |-> NoResult]

Free(c) == call[c].pc \in {"idle", "done"} /\ started < MaxCalls

Remaining(docs) == [i \in DOMAIN docs |-> docs[i].remainingUsd]

\* the call returns: its locals go, its arguments and result stay to be read
Finish(c, result) ==
  call' = [call EXCEPT ![c] =
             [IdleCall EXCEPT !.op = call[c].op, !.pc = "done",
                !.userId = call[c].userId, !.amountUsd = call[c].amountUsd,
                !.date = call[c].date, !.before = call[c].before,
                !.salesBefore = call[c].salesBefore, !.result = result]]

LedgerInit ==
  /\ incomes = <<>>
  /\ sales = <<>>
  /\ call = [c \in Calls |-> IdleCall]
  /\ started = 0

(***************************************************************************)
(* addUsd.                                                                 *)
(***************************************************************************)
\* an addUsd that goes on to the save with whatever the lookup gave
AddRateUnchecked(c, userId, amountUsd, date, outcome) ==
  /\ Free(c)
  /\ started' = started + 1
  /\ call' = [call EXCEPT ![c] =
       [IdleCall EXCEPT !.op = "add", !.pc = "addSave", !.userId = userId,
          !.amountUsd = amountUsd, !.date = date, !.rate = outcome,
          !.before = Remaining(incomes), !.salesBefore = Len(sales)]]
  /\ UNCHANGED <<incomes, sales>>

\* the call starts and CurrencyService.getNbuRate(date) answers or throws
AddRate(c, userId, amountUsd, date, outcome) ==
  /\ Free(c)
  /\ started' = started + 1
  /\ call' = [call EXCEPT ![c] =
       IF outcome = RateError
         THEN [IdleCall EXCEPT !.op = "add", !.pc = "done", !.userId = userId,
                 !.amountUsd = amountUsd, !.date = date,
                 !.before = Remaining(incomes), !.salesBefore = Len(sales),
                 !.result = RateErrorResult]
         ELSE [IdleCall EXCEPT !.op = "add", !.pc = "addSave", !.userId = userId,
                 !.amountUsd = amountUsd, !.date = date, !.rate = outcome,
                 !.before = Remaining(incomes), !.salesBefore = Len(sales)]]
  /\ UNCHANGED <<incomes, sales>>

\* a lot whose tax base is the rate, not scaled by the quantity
NewIncomeUnscaled(userId, amountUsd, nbuRate, date) ==
  [userId |-> userId, amountUsd |-> amountUsd, remainingUsd |-> amountUsd,
   nbuRate |-> nbuRate, taxBaseUah |-> nbuRate, date |-> date]

NewIncome(userId, amountUsd, nbuRate, date) ==
  [userId |-> userId, amountUsd |-> amountUsd, remainingUsd |-> amountUsd,
   nbuRate |-> nbuRate, taxBaseUah |-> amountUsd * nbuRate, date |-> date]

\* income.save() stores the lot
AddSave(c) ==
  /\ call[c].pc = "addSave"
  /\ incomes' = Append(incomes,
       NewIncome(call[c].userId, call[c].amountUsd, call[c].rate, call[c].date))
  /\ call' = [call EXCEPT ![c].pc = "addBalance"]
  /\ UNCHANGED <<sales, started>>

\* income.save() rejects: the catch block answers
AddSaveFails(c) ==
  /\ call[c].pc = "addSave"
  /\ Finish(c, ErrorResult)
  /\ UNCHANGED <<incomes, sales, started>>

\* getBalance after the save, and the success result
AddBalance(c) ==
  /\ call[c].pc = "addBalance"
  /\ Finish(c, [success |-> TRUE, kind |-> "ok", amountUsd |-> call[c].amountUsd,
                rate |-> call[c].rate, sellUah |-> 0,
                taxBaseUah |-> call[c].amountUsd * call[c].rate, profit |-> 0,
                newBalance |-> getBalance(call[c].userId)])
  /\ UNCHANGED <<incomes, sales, started>>

(***************************************************************************)
(* sellUsd.                                                                *)
(***************************************************************************)
StartSell(userId, amountUsd, date) ==
  [IdleCall EXCEPT !.op = "sell", !.userId = userId, !.amountUsd = amountUsd,
     !.date = date, !.before = Remaining(incomes), !.salesBefore = Len(sales)]

\* the call starts, getBalance answers and the balance covers the quantity
SellCheck(c, userId, amountUsd, date) ==
  /\ Free(c)
  /\ started' = started + 1
  /\ ~ (getBalance(userId) < amountUsd)
  /\ call' = [call EXCEPT ![c] =
                [StartSell(userId, amountUsd, date) EXCEPT !.pc = "sellRate"]]
  /\ UNCHANGED <<incomes, sales>>

\* the call starts, getBalance answers and the balance is too small
SellInsufficient(c, userId, amountUsd, date) ==
  /\ Free(c)
  /\ started' = started + 1
  /\ getBalance(userId) < amountUsd
  /\ call' = [call EXCEPT ![c] =
                [StartSell(userId, amountUsd, date) EXCEPT !.pc = "done",
                   !.result = InsufficientResult(getBalance(userId))]]
  /\ UNCHANGED <<incomes, sales>>

\* CurrencyService.getMonobankBuyRate(sellDate) answers or throws
SellRate(c, outcome) ==
  /\ call[c].pc = "sellRate"
  /\ IF outcome = RateError
       THEN Finish(c, RateErrorResult)
       ELSE call' = [call EXCEPT ![c].pc = "sellFind", ![c].rate = outcome]
  /\ UNCHANGED <<incomes, sales, started>>

\* the FIFO query answers; the loop over its documents runs in memory
SellFind(c, order) ==
  /\ call[c].pc = "sellFind"
  /\ LET plan == DeductFifo(Docs(order), call[c].amountUsd)
     IN call' = [call EXCEPT ![c].pc = "sellSave", ![c].k = 1,
                   ![c].totalTaxBase = plan.totalTaxBase,
                   ![c].updatedIncomes = plan.updatedIncomes]
  /\ UNCHANGED <<incomes, sales, started>>

\* the FIFO query rejects: the catch block answers
SellFindFails(c) ==
  /\ call[c].pc = "sellFind"
  /\ Finish(c, ErrorResult)
  /\ UNCHANGED <<incomes, sales, started>>

\* a save that also takes the sold share off the lot's tax base
SaveIncomeRescaled(stored, u) ==
  [stored EXCEPT !.remainingUsd = u.remainingUsd - u.soldAmount,
                 !.taxBaseUah = stored.taxBaseUah - TaxBaseForThis(u.soldAmount, stored)]

\* a save that takes the sold quantity off the stored value ($inc)
SaveIncomeDecrement(stored, u) ==
  [stored EXCEPT !.remainingUsd = stored.remainingUsd - u.soldAmount]

\* income.save() of a document whose only modified path is remainingUsd
SaveIncome(stored, u) ==
  [stored EXCEPT !.remainingUsd = u.remainingUsd - u.soldAmount]

\* income.remainingUsd -= soldAmount; income.save(): the document's own
\* value, from the read of SellFind, is written over the stored one
SellSaveIncome(c) ==
  /\ call[c].pc = "sellSave"
  /\ call[c].k <= Len(call[c].updatedIncomes)
  /\ LET u == call[c].updatedIncomes[call[c].k]
     IN incomes' = [incomes EXCEPT ![u.id] = SaveIncome(incomes[u.id], u)]
  /\ call' = [call EXCEPT ![c].k = call[c].k + 1]
  /\ UNCHANGED <<sales, started>>

\* income.save() rejects: the catch block answers, nothing is undone
SellSaveIncomeFails(c) ==
  /\ call[c].pc = "sellSave"
  /\ call[c].k <= Len(call[c].updatedIncomes)
  /\ Finish(c, ErrorResult)
  /\ UNCHANGED <<incomes, sales, started>>

\* the proceeds of one unit only
SellUahPerUnit(amountUsd, monobankRate) == monobankRate

SellUah(amountUsd, monobankRate) == amountUsd * monobankRate

NewSale(c) ==
  LET sellUah == SellUah(call[c].amountUsd, call[c].rate)
  IN [userId |-> call[c].userId, amountUsd |-> call[c].amountUsd,
      sellDate |-> call[c].date, monobankRate |-> call[c].rate,
      sellUah |-> sellUah, taxBaseUah |-> call[c].totalTaxBase,
      profit |-> sellUah - call[c].totalTaxBase]

\* sale.save() stores the sale record
SellSaveSale(c) ==
  /\ call[c].pc = "sellSave"
  /\ call[c].k > Len(call[c].updatedIncomes)
  /\ sales' = Append(sales, NewSale(c))
  /\ call' = [call EXCEPT ![c].pc = "sellBalance"]
  /\ UNCHANGED <<incomes, started>>

\* sale.save() rejects: the catch block answers, the lots stay decremented
SellSaveSaleFails(c) ==
  /\ call[c].pc = "sellSave"
  /\ call[c].k > Len(call[c].updatedIncomes)
  /\ Finish(c, ErrorResult)
  /\ UNCHANGED <<incomes, sales, started>>

\* getBalance after the sale, and the success result
SellBalance(c) ==
  /\ call[c].pc = "sellBalance"
  /\ LET sale == NewSale(c)
     IN Finish(c, [success |-> TRUE, kind |-> "ok", amountUsd |-> sale.amountUsd,
                   rate |-> sale.monobankRate, sellUah |-> sale.sellUah,
                   taxBaseUah |-> sale.taxBaseUah, profit |-> sale.profit,
                   newBalance |-> getBalance(call[c].userId)])
  /\ UNCHANGED <<incomes, sales, started>>

(***************************************************************************)
(* The ledger: calls of the slots, interleaved at their awaits.            *)
(***************************************************************************)
\* addUsd or sellUsd is called
LedgerStart(c, userId, amountUsd, date) ==
  \/ \E outcome \in NbuRateOutcomes(date) :
       AddRate(c, userId, amountUsd, date, outcome)
  \/ SellCheck(c, userId, amountUsd, date)
  \/ SellInsufficient(c, userId, amountUsd, date)

\* a call under way takes its next step
LedgerProgress(c) ==
  \/ AddSave(c)
  \/ AddSaveFails(c)
  \/ AddBalance(c)
  \/ \E outcome \in MonobankBuyRateOutcomes(call[c].date) : SellRate(c, outcome)
  \/ \E order \in FifoOrders(call[c].userId) : SellFind(c, order)
  \/ SellFindFails(c)
  \/ SellSaveIncome(c)
  \/ SellSaveIncomeFails(c)
  \/ SellSaveSale(c)
  \/ SellSaveSaleFails(c)
  \/ SellBalance(c)

\* the calls the handlers make: a positive quantity, a date not in the future
LedgerCallOf(c, owners) ==
  \/ \E userId \in owners, amountUsd \in Quantities, date \in Dates :
       LedgerStart(c, userId, amountUsd, date)
  \/ LedgerProgress(c)

LedgerCall(c) == LedgerCallOf(c, Owners)

LedgerStep(c) == LedgerCall(c) /\ UNCHANGED <<rateVars, notifyVars>>

(***************************************************************************)
(* BotHandlers: /add_usd and /sell_usd validate the amount, then call the  *)
(* service.                                                                *)
(***************************************************************************)
\* the amounts a command can carry once parsed
Amounts == (0 - 1) .. MaxQty

InvalidResult ==
  [success |-> FALSE, kind |-> "invalid", amountUsd |-> 0, rate |-> 0, sellUah |-> 0,
   taxBaseUah |-> 0, profit |-> 0, newBalance |-> 0]

\* a validation that refuses negative amounts only
InvalidAmountNegative(amount) == amount < 0

\* isNaN(amount) || amount <= 0, of a number
InvalidAmount(amount) == amount <= 0

\* the handler answers 'Amount must be a positive number' and returns
Reject(c, op, userId, amount, date) ==
  /\ Free(c)
  /\ started' = started + 1
  /\ call' = [call EXCEPT ![c] =
       [IdleCall EXCEPT !.op = op, !.pc = "done", !.userId = userId,
          !.amountUsd = amount, !.date = date, !.result = InvalidResult]]
  /\ UNCHANGED <<incomes, sales>>

handleAddUsd(c, userId, amount, date) ==
  IF InvalidAmount(amount)
    THEN Reject(c, "add", userId, amount, date)
    ELSE \E outcome \in NbuRateOutcomes(date) :
           AddRate(c, userId, amount, date, outcome)

handleSellUsd(c, userId, amount, date) ==
  IF InvalidAmount(amount)
    THEN Reject(c, "sell", userId, amount, date)
    ELSE \/ SellCheck(c, userId, amount, date)
         \/ SellInsufficient(c, userId, amount, date)

\* a command arrives, or a service call under way takes its next step
HandlerCall(c) ==
  \/ \E userId \in Owners, amount \in Amounts, date \in Dates :
       \/ handleAddUsd(c, userId, amount, date)
       \/ handleSellUsd(c, userId, amount, date)
  \/ LedgerProgress(c)

NextHandlers == HandlerCall(1) /\ UNCHANGED <<rateVars, notifyVars>>

(***************************************************************************)
(* NotificationService: the registry of owners, the scheduled sweep and    *)
(* the manual test.  Time is counted in hours; the cron job fires at the   *)
(* hours 8, 12, 16 and 20 of each day.  A check is a call of checkUserPnL  *)
(* (inside a sweep) or of testNotification; its valuation, getStatus,      *)
(* reads the ledger and then asks the rate service for today's live rate.  *)
(***************************************************************************)
MIN_NOTIFICATION_INTERVAL_HOURS == 6
CronHours == {8, 12, 16, 20}
Epoch == 0 - 490000
TickHours == 2
Sweep == 1
Test == 2
Checks == {Sweep, Test}

\* the provider's quote during the notification runs
SweepQuotes == {39}

IsCronHour(t) == (t % HoursPerDay) \in CronHours

\* the ledger the notification runs value: owner 1 holds one lot, owner 2 none
SeedLedger == <<NewIncome(1, MaxQty, NbuRateOn(0), 0)>>

\* the owners who send /test_notification during the notification runs
Testers == {1}

\* a deleted entry of the Map: iterators pass over it
Deleted == [userId |-> 0, ref |-> 0]

\* Map.has, Map.get, Map.size
Has(m, userId) == \E i \in DOMAIN m : m[i].userId = userId
Get(m, userId) == m[CHOOSE i \in DOMAIN m : m[i].userId = userId].ref
Size(m) == Cardinality({i \in DOMAIN m : m[i].userId # 0})

NewState(userId) ==
  [userId |-> userId, chatId |-> userId, lastNotifiedPnL |-> 0,
   lastNotifiedRate |-> 0, lastNotificationTime |-> Epoch]

\* a balance test that lets every balance through
NoBalanceNever(balanceUsd) == FALSE

\* status.balanceUsd === 0 of checkUserPnL and testNotification
NoBalance(balanceUsd) == balanceUsd = 0

\* the throttle of checkUserPnL
TooSoonNever(lastNotificationTime, t) == FALSE

\* a throttle of twice the interval
TooSoonTwice(lastNotificationTime, t) ==
  t - lastNotificationTime < 2 * MIN_NOTIFICATION_INTERVAL_HOURS

TooSoon(lastNotificationTime, t) ==
  t - lastNotificationTime < MIN_NOTIFICATION_INTERVAL_HOURS

IdleCheck ==
  [pc |-> "idle", kind |-> "none", userId |-> 0, ref |-> 0, idx |-> 0,
   balanceUsd |-> 0, taxBaseUah |-> 0, rate |-> 0, currentValueUah |-> 0,
   unrealizedProfitUah |-> 0, outcome |-> "none",
   startedAt |-> 0, prior |-> 0, cron |-> 0]

NotifyIdle ==
  /\ userStates = <<>>
  /\ stateObjs = <<>>
  /\ check = [p \in Checks |-> IdleCheck]
  /\ cronDone = 0
  /\ sent = <<>>
  /\ served = {}
  /\ tested = 0

CheckFree(p) == check[p].pc \in {"idle", "done"}

\* a registerUser that sets a new state object whether or not the owner is in
\* the Map (Map.set on a present key keeps the entry's place)
registerUserResetting(userId) ==
  /\ Len(stateObjs) < MaxStateObjs
  /\ stateObjs' = Append(stateObjs, NewState(userId))
  /\ userStates' =
       IF Has(userStates, userId)
         THEN [i \in DOMAIN userStates |->
                 IF userStates[i].userId = userId
                   THEN [userId |-> userId, ref |-> Len(stateObjs) + 1]
                   ELSE userStates[i]]
         ELSE Append(userStates, [userId |-> userId, ref |-> Len(stateObjs) + 1])

\* registerUser: a new state object, unless the owner is in the Map
registerUser(userId) ==
  IF Has(userStates, userId)
    THEN UNCHANGED <<userStates, stateObjs>>
    ELSE /\ Len(stateObjs) < MaxStateObjs
         /\ stateObjs' = Append(stateObjs, NewState(userId))
         /\ userStates' = Append(userStates,
                             [userId |-> userId, ref |-> Len(stateObjs) + 1])

\* a message from the owner that is no command the model follows
Register(userId) ==
  /\ registerUser(userId)
  /\ UNCHANGED <<check, cronDone, sent, served, tested>>

\* unregisterUser: the entry leaves the Map; a check in flight keeps its object
Unregister(userId) ==
  /\ Has(userStates, userId)
  /\ userStates' = [i \in DOMAIN userStates |->
                      IF userStates[i].userId = userId THEN Deleted
                      ELSE userStates[i]]
  /\ UNCHANGED <<stateObjs, check, cronDone, sent, served, tested>>

\* the for-of loop of checkAndNotify moves to the next live entry at or after
\* idx and calls checkUserPnL for it, or ends the sweep
NextEntries(m, idx) == {i \in DOMAIN m : i >= idx /\ m[i].userId # 0}

Advance(rec, m) ==
  LET live == NextEntries(m, rec.idx)
  IN IF live = {}
       THEN [IdleCheck EXCEPT !.pc = "done", !.kind = rec.kind, !.cron = rec.cron]
       ELSE LET i == CHOOSE j \in live : \A k \in live : j <= k
            IN [rec EXCEPT !.pc = "find", !.userId = m[i].userId, !.ref = m[i].ref,
                  !.idx = i + 1, !.startedAt = now, !.outcome = "none"]

\* the cron job fires: checkAndNotify
SweepStart ==
  /\ IsCronHour(now)
  /\ cronDone # now
  /\ CheckFree(Sweep)
  /\ cronDone' = now
  /\ check' = [check EXCEPT ![Sweep] =
       IF Size(userStates) = 0
         THEN [IdleCheck EXCEPT !.pc = "done", !.kind = "sweep", !.cron = now,
                 !.outcome = "noUsers"]
         ELSE Advance([IdleCheck EXCEPT !.kind = "sweep", !.cron = now, !.idx = 1],
                      userStates)]
  /\ UNCHANGED <<userStates, stateObjs, sent, served, tested>>

\* /test_notification from an owner: the message listener registers the owner,
\* then testNotification takes the owner's state and asks for the status
TestStart(userId) ==
  /\ CheckFree(Test)
  /\ tested < MaxTests
  /\ tested' = tested + 1
  /\ registerUser(userId)
  /\ check' = [check EXCEPT ![Test] =
       [IdleCheck EXCEPT !.pc = "find", !.kind = "test", !.userId = userId,
          !.ref = Get(userStates', userId), !.startedAt = now]]
  /\ UNCHANGED <<cronDone, sent, served>>

\* a sweep whose loop ends at the first error
EndCheckAborting(rec, outcome) ==
  IF rec.kind = "sweep" /\ outcome # "error"
    THEN [Advance(rec, userStates) EXCEPT !.outcome = outcome]
    ELSE [IdleCheck EXCEPT !.pc = "done", !.kind = rec.kind, !.userId = rec.userId,
            !.ref = rec.ref, !.cron = rec.cron, !.outcome = outcome]

\* the end of a check inside a sweep is the next turn of the for-of loop
EndCheck(rec, outcome) ==
  IF rec.kind = "sweep"
    THEN [Advance(rec, userStates) EXCEPT !.outcome = outcome]
    ELSE [IdleCheck EXCEPT !.pc = "done", !.kind = rec.kind, !.userId = rec.userId,
            !.ref = rec.ref, !.outcome = outcome]

\* the whole tax base of a lot, whatever remains of it
TaxBaseForRemainingWhole(income) == income.taxBaseUah

\* the tax base of the share of the lot that has been sold
TaxBaseForRemainingOfSold(income) ==
  ((income.amountUsd - income.remainingUsd) * income.taxBaseUah) \div income.amountUsd

\* (income.remainingUsd / income.amountUsd) * income.taxBaseUah
TaxBaseForRemaining(income) ==
  (income.remainingUsd * income.taxBaseUah) \div income.amountUsd

\* getStatus, lines 193-201: the tax base of what remains of the owner's lots
RECURSIVE StatusTaxBase(_, _, _)
StatusTaxBase(docs, userId, i) ==
  IF i > Len(docs) THEN 0
  ELSE (IF docs[i].userId = userId /\ docs[i].remainingUsd > 0
          THEN TaxBaseForRemaining(docs[i])
          ELSE 0)
       + StatusTaxBase(docs, userId, i + 1)

\* a find that writes to each lot the tax base of what remains of it
StatusFindRebasing(p) ==
  /\ check[p].pc = "find"
  /\ check' = [check EXCEPT ![p].pc = "rate",
                 ![p].balanceUsd = getBalance(check[p].userId),
                 ![p].taxBaseUah = StatusTaxBase(incomes, check[p].userId, 1)]
  /\ incomes' = [i \in DOMAIN incomes |->
                   [incomes[i] EXCEPT !.taxBaseUah = TaxBaseForRemaining(incomes[i])]]
  /\ UNCHANGED <<sales, call, started>>
  /\ UNCHANGED <<userStates, stateObjs, cronDone, sent, served, tested>>
  /\ UNCHANGED rateVars

\* getStatus: UsdIncome.find answers; balance and tax base are summed
StatusFind(p) ==
  /\ check[p].pc = "find"
  /\ check' = [check EXCEPT ![p].pc = "rate",
                 ![p].balanceUsd = getBalance(check[p].userId),
                 ![p].taxBaseUah = StatusTaxBase(incomes, check[p].userId, 1)]
  /\ UNCHANGED <<userStates, stateObjs, cronDone, sent, served, tested>>
  /\ UNCHANGED <<ledgerVars, rateVars>>

\* getStatus: UsdIncome.find rejects and the error is thrown to the caller
StatusFindFails(p) ==
  /\ check[p].pc = "find"
  /\ check' = [check EXCEPT ![p] = EndCheck(check[p], "error")]
  /\ UNCHANGED <<userStates, stateObjs, cronDone, sent, served, tested>>
  /\ UNCHANGED <<ledgerVars, rateVars>>

\* getStatus: getCurrentMonobankBuyRate() looks today's live rate up
StatusRate(p) ==
  /\ check[p].pc = "rate"
  /\ check' = [check EXCEPT ![p].pc = "rateWait"]
  /\ rcall' = [rcall EXCEPT ![p] = MonoLookup(getDateOnly(now))]
  /\ UNCHANGED <<now, ticks, cache, rstarted>>
  /\ UNCHANGED <<userStates, stateObjs, cronDone, sent, served, tested>>
  /\ UNCHANGED ledgerVars

\* the rate call of a check takes a step
StatusRateStep(p) ==
  /\ check[p].pc = "rateWait"
  /\ RateStep(p, SweepQuotes)
  /\ UNCHANGED <<ledgerVars, notifyVars>>

\* the live-rate cache entry that a finished rate call answered from
EntryOf(rc) ==
  IF rc.source = "monoCache" THEN {<<rc.date, rc.seenMono.cachedAt>>}
  ELSE IF rc.source = "monoApi" THEN {<<rc.date, rc.savedAt>>}
  ELSE {}

\* getStatus returns or throws; the check decides whether to notify
Evaluate(p) ==
  /\ check[p].pc = "rateWait"
  /\ rcall[p].pc = "done"
  /\ LET rec == check[p]
         rate == rcall[p].result
         state == stateObjs[rec.ref]
     IN /\ check' = [check EXCEPT ![p] =
             IF rate = RateError THEN EndCheck(rec, "error")
             ELSE IF NoBalance(rec.balanceUsd)
               THEN (IF rec.kind = "sweep" THEN EndCheck(rec, "noBalance")
                     ELSE [rec EXCEPT !.pc = "notice"])
             ELSE IF rec.kind = "sweep" /\ TooSoon(state.lastNotificationTime, now)
               THEN EndCheck(rec, "tooSoon")
             ELSE [rec EXCEPT !.pc = "send", !.rate = rate, !.prior = Len(sent)]]
        /\ served' = IF rec.kind = "sweep"
                       THEN served \cup {[cron |-> rec.cron, entry |-> e] :
                                           e \in EntryOf(rcall[p])}
                       ELSE served
  /\ rcall' = [rcall EXCEPT ![p] = IdleRate]
  /\ UNCHANGED <<now, ticks, cache, rstarted>>
  /\ UNCHANGED <<userStates, stateObjs, cronDone, sent, tested>>
  /\ UNCHANGED ledgerVars

\* sendPnLNotification is over, delivered or not (a failure is only logged),
\* and the state object the check holds is updated
SendDone(p, delivered) ==
  /\ check[p].pc = "send"
  /\ LET rec == check[p]
     IN /\ stateObjs' = [stateObjs EXCEPT ![rec.ref] =
             [@ EXCEPT !.lastNotifiedPnL = rec.balanceUsd * rec.rate - rec.taxBaseUah,
                       !.lastNotifiedRate = rec.rate,
                       !.lastNotificationTime = now]]
        /\ sent' = IF delivered
                     THEN Append(sent, [userId |-> rec.userId, ref |-> rec.ref,
                                        kind |-> rec.kind, at |-> now,
                                        pnl |-> rec.balanceUsd * rec.rate
                                                  - rec.taxBaseUah,
                                        startedAt |-> rec.startedAt,
                                        prior |-> rec.prior])
                     ELSE sent
        /\ check' = [check EXCEPT ![p] =
             EndCheck(rec, "sent")]
  /\ UNCHANGED <<userStates, cronDone, served, tested>>
  /\ UNCHANGED <<ledgerVars, rateVars>>

\* testNotification, balance 0: the 'no USD balance' message is sent and the
\* call returns, or sendMessage rejects and the call throws
NoticeDone(p, delivered) ==
  /\ check[p].pc = "notice"
  /\ check' = [check EXCEPT ![p] =
                 EndCheck(check[p], IF delivered THEN "noticed" ELSE "error")]
  /\ UNCHANGED <<userStates, stateObjs, cronDone, sent, served, tested>>
  /\ UNCHANGED <<ledgerVars, rateVars>>

\* time passes; the cron job does not miss its hour
NotifyTick(horizon) ==
  /\ now + TickHours <= horizon
  /\ IsCronHour(now) => cronDone = now
  /\ now' = now + TickHours
  /\ UNCHANGED <<ticks, cache, rcall, rstarted>>
  /\ UNCHANGED <<ledgerVars, notifyVars>>

\* a message from an owner arrives: the listener of index.ts registers the owner
\* (the program itself never calls unregisterUser)
Registry(owners) ==
  /\ \E userId \in owners : Register(userId)
  /\ UNCHANGED <<ledgerVars, rateVars>>

\* the cron job fires
SweepFires == SweepStart /\ UNCHANGED <<ledgerVars, rateVars>>

CheckStart ==
  /\ SweepStart \/ \E userId \in Testers : TestStart(userId)
  /\ UNCHANGED <<ledgerVars, rateVars>>

\* the steps that checkUserPnL and testNotification share
StatusStep(p) ==
  \/ StatusFind(p)
  \/ StatusFindFails(p)
  \/ StatusRate(p)
  \/ StatusRateStep(p)
  \/ Evaluate(p)
  \/ \E delivered \in BOOLEAN : SendDone(p, delivered)

CheckStep(p) ==
  \/ StatusStep(p)
  \/ \E delivered \in BOOLEAN : NoticeDone(p, delivered)

\* one owner, with or without a balance: sweeps and manual tests
NextNotify ==
  \/ Registry(Testers)
  \/ CheckStart
  \/ \E p \in Checks : CheckStep(p)
  \/ TtlReap /\ UNCHANGED <<ledgerVars, notifyVars>>
  \/ NotifyTick(Horizon)

\* both owners, one of them with a balance: sweeps only
NextSweep ==
  \/ Registry(Owners)
  \/ SweepFires
  \/ StatusStep(Sweep)
  \/ TtlReap /\ UNCHANGED <<ledgerVars, notifyVars>>
  \/ NotifyTick(SweepHorizon)

\* a caller of the exported unregisterUser beside the sweeps (the bot itself
\* has no such caller)
NextUnregister ==
  \/ Registry(Testers)
  \/ /\ \E userId \in Testers : Unregister(userId)
     /\ UNCHANGED <<ledgerVars, rateVars>>
  \/ SweepFires
  \/ StatusStep(Sweep)
  \/ NotifyTick(Horizon)

\* the hour at which the runs of the registry end
RegisterHorizon == 10

\* the registry of one owner: the owner's messages, manual tests among them,
\* arrive while no sweep runs, and a caller of unregisterUser stands beside
NextRegister ==
  \/ Registry(Testers)
  \/ /\ \E userId \in Testers : Unregister(userId)
     /\ UNCHANGED <<ledgerVars, rateVars>>
  \/ /\ CheckFree(Test)
     /\ SweepFires
  \/ /\ CheckFree(Sweep)
     /\ \E userId \in Testers : TestStart(userId)
     /\ UNCHANGED <<ledgerVars, rateVars>>
  \/ \E p \in Checks : StatusStep(p)
  \/ NotifyTick(RegisterHorizon)

(***************************************************************************)
(* BotHandlers.handleStatus: /status asks UsdService.getStatus.            *)
(***************************************************************************)
StatusSlot == 1

\* /status from an owner: getStatus is called
GetStatusStart(userId) ==
  /\ CheckFree(StatusSlot)
  /\ check' = [check EXCEPT ![StatusSlot] =
       [IdleCheck EXCEPT !.pc = "find", !.kind = "status", !.userId = userId,
          !.startedAt = now]]
  /\ UNCHANGED <<userStates, stateObjs, cronDone, sent, served, tested>>
  /\ UNCHANGED <<ledgerVars, rateVars>>

\* currentValueUah = balanceUsd * currentMonobankRate
CurrentValue(balanceUsd, currentMonobankRate) == balanceUsd * currentMonobankRate

\* the rate lookup is over: getStatus returns its result, or throws its error
GetStatusReturn(p) ==
  /\ check[p].pc = "rateWait"
  /\ check[p].kind = "status"
  /\ rcall[p].pc = "done"
  /\ LET rec == check[p]
         rate == rcall[p].result
         currentValueUah == CurrentValue(rec.balanceUsd, rate)
     IN check' = [check EXCEPT ![p] =
          IF rate = RateError
            THEN [IdleCheck EXCEPT !.pc = "done", !.kind = "status",
                    !.userId = rec.userId, !.startedAt = rec.startedAt,
                    !.outcome = "error"]
            ELSE [rec EXCEPT !.pc = "done", !.rate = rate,
                    !.currentValueUah = currentValueUah,
                    !.unrealizedProfitUah = currentValueUah - rec.taxBaseUah,
                    !.outcome = "ok"]]
  /\ rcall' = [rcall EXCEPT ![p] = IdleRate]
  /\ UNCHANGED <<now, ticks, cache, rstarted>>
  /\ UNCHANGED <<userStates, stateObjs, cronDone, sent, served, tested>>
  /\ UNCHANGED ledgerVars

\* a getStatus call under way takes its next step
GetStatusStep(p) ==
  \/ StatusFind(p)
  \/ StatusFindFails(p)
  \/ StatusRate(p)
  \/ StatusRateStep(p)
  \/ GetStatusReturn(p)

\* the owner whose ledger calls run beside other calls
OverlapOwners == {1}

\* /status calls of either owner beside the ledger calls of owner 1
NextStatus ==
  \/ \E userId \in Owners : GetStatusStart(userId)
  \/ GetStatusStep(StatusSlot)
  \/ LedgerCallOf(1, OverlapOwners) /\ UNCHANGED <<rateVars, notifyVars>>

(***************************************************************************)
(* The specifications.                                                     *)
(***************************************************************************)
Init == LedgerInit /\ RateIdle /\ NotifyIdle

\* the ledger with overlapping calls: every slot may be in flight
Next == \E c \in Calls : LedgerStep(c)

Spec == Init /\ [][Next]_vars

\* the ledger with one call at a time: each completes before the next starts
NextSeq == LedgerStep(1)

SpecSeq == Init /\ [][NextSeq]_vars

\* the commands of the bot, one at a time
SpecHandlers == Init /\ [][NextHandlers]_vars

\* overlapping calls of one owner who has acquired one lot already
NextOverlap ==
  \E c \in Calls : LedgerCallOf(c, OverlapOwners) /\ UNCHANGED <<rateVars, notifyVars>>

InitOverlap ==
  /\ incomes = <<NewIncome(1, MaxQty, NbuRateOn(1), 1)>>
  /\ sales = <<>>
  /\ call = [c \in Calls |-> IdleCall]
  /\ started = 1
  /\ RateIdle
  /\ NotifyIdle

SpecOverlap == InitOverlap /\ [][NextOverlap]_vars

\* the rate service alone: one rate call at a time, time passing between steps
SpecRate == Init /\ [][NextRate]_vars

\* the rate service under two overlapping callers, at one time of day
SpecRace == Init /\ [][NextRace]_vars

\* the notification service over a fixed ledger, with or without a lot of the
\* owner: the cron sweep and a manual test may overlap, and time passes
\* between their steps
InitNotify ==
  /\ incomes \in {SeedLedger, <<>>}
  /\ sales = <<>>
  /\ call = [c \in Calls |-> IdleCall]
  /\ started = 0
  /\ RateIdle
  /\ NotifyIdle

SpecNotify == InitNotify /\ [][NextNotify]_vars

\* the scheduled sweep over the registry of both owners, owner 1 holding a lot
InitSweep ==
  /\ incomes = SeedLedger
  /\ sales = <<>>
  /\ call = [c \in Calls |-> IdleCall]
  /\ started = 0
  /\ RateIdle
  /\ NotifyIdle

SpecSweep == InitSweep /\ [][NextSweep]_vars

\* the sweeps over a registry that owners also leave
SpecUnregister == InitSweep /\ [][NextUnregister]_vars

\* registration, unregistration, sweeps and manual tests of one owner
SpecRegister == InitSweep /\ [][NextRegister]_vars

\* owner 1 holds two lots, of 1 and of 2, acquired by two calls; owner 2 none
StatusLedger ==
  <<NewIncome(1, 1, NbuRateOn(1), 1), NewIncome(1, 2, NbuRateOn(2), 2)>>

InitStatus ==
  /\ incomes = StatusLedger
  /\ sales = <<>>
  /\ call = [c \in Calls |-> IdleCall]
  /\ started = 2
  /\ RateIdle
  /\ NotifyIdle

SpecStatus == InitStatus /\ [][NextStatus]_vars

\* what a getStatus call does without a provider: the storage always answers
\* or rejects, and the code then goes on; a provider may stay silent for ever
\* (axios.get is called without a timeout)
ProgramStep(p) ==
  \/ StatusFind(p)
  \/ StatusFindFails(p)
  \/ StatusRate(p)
  \/ /\ check[p].pc = "rateWait"
     /\ NbuFind(p) \/ NbuSave(p) \/ NbuSaveFails(p) \/ MonoSave(p) \/ MonoSaveFails(p)
     /\ UNCHANGED <<ledgerVars, notifyVars>>
  \/ GetStatusReturn(p)

SpecStatusLive ==
  InitStatus /\ [][NextStatus]_vars /\ WF_vars(ProgramStep(StatusSlot))

(***************************************************************************)
(* Totals that the ledger properties speak of.                             *)
(***************************************************************************)
RECURSIVE SumAmount(_, _, _)
SumAmount(docs, userId, i) ==
  IF i > Len(docs) THEN 0
  ELSE (IF docs[i].userId = userId THEN docs[i].amountUsd ELSE 0)
       + SumAmount(docs, userId, i + 1)

AcquiredTotal(userId) == SumAmount(incomes, userId, 1)
SoldTotal(userId) == SumAmount(sales, userId, 1)

\* the owner's balance when call c started, from the snapshot the call took
RECURSIVE SumBefore(_, _, _)
SumBefore(c, userId, i) ==
  IF i > Len(call[c].before) THEN 0
  ELSE (IF incomes[i].userId = userId THEN call[c].before[i] ELSE 0)
       + SumBefore(c, userId, i + 1)

BalanceBefore(c) == SumBefore(c, call[c].userId, 1)

LedgerAsBefore(c) ==
  /\ \A i \in DOMAIN call[c].before : incomes[i].remainingUsd = call[c].before[i]
  /\ Len(sales) = call[c].salesBefore

Returned(c, op) == call[c].pc = "done" /\ call[c].op = op

\* the lots that the sale of call c left lower than it found them
Decremented(c) ==
  {i \in DOMAIN call[c].before : incomes[i].remainingUsd < call[c].before[i]}

(***************************************************************************)
(* C1  Balance conservation: with calls run one at a time, whenever no     *)
(* call is in progress, getBalance(owner) is the sum of amountUsd over the *)
(* owner's lots minus the sum of amountUsd over the owner's sale records.  *)
(***************************************************************************)
BalanceConservation ==
  (\A c \in Calls : call[c].pc \in {"idle", "done"}) =>
    \A userId \in Owners :
      getBalance(userId) = AcquiredTotal(userId) - SoldTotal(userId)

(***************************************************************************)
(* C2  No concurrent overdraw: with overlapping sellUsd calls, the total   *)
(* quantity recorded in an owner's sale records never exceeds the total    *)
(* quantity the owner acquired.                                            *)
(***************************************************************************)
NoConcurrentOverdraw ==
  \A userId \in Owners : SoldTotal(userId) <= AcquiredTotal(userId)

AllOrNothing ==
  \A c \in Calls :
    (Returned(c, "sell") /\ ~ call[c].result.success) => LedgerAsBefore(c)

(***************************************************************************)
(* C5  FIFO order: after a successful sellUsd, a lot was decremented only  *)
(* if every lot of the owner with a strictly earlier date has remainingUsd *)
(* 0, and at most one decremented lot is left with remainingUsd > 0.       *)
(***************************************************************************)
FifoOrder ==
  \A c \in Calls :
    (Returned(c, "sell") /\ call[c].result.success) =>
      /\ \A i \in Decremented(c) : \A j \in DOMAIN incomes :
           (incomes[j].userId = incomes[i].userId /\ incomes[j].date < incomes[i].date)
             => incomes[j].remainingUsd = 0
      /\ Cardinality({i \in Decremented(c) : incomes[i].remainingUsd > 0}) <= 1

FifoOrderWitness ==
  \E c \in Calls :
    /\ Returned(c, "sell") /\ call[c].result.success
    /\ Cardinality(Decremented(c)) = 2
    /\ \E i \in Decremented(c) : incomes[i].remainingUsd > 0
    /\ \E i, j \in Decremented(c) : incomes[i].date < incomes[j].date

(***************************************************************************)
(* C6  Rate fallback: when the Monobank call for today fails with a        *)
(* transport error, getMonobankBuyRate returns what getNbuRate(today)      *)
(* returns (the cached primary rate or the fetched one), and it throws     *)
(* only when that primary lookup fails.                                    *)
(***************************************************************************)
RateFallback ==
  \A r \in RCalls :
    (rcall[r].pc = "done" /\ rcall[r].monoFailed) =>
      /\ rcall[r].primary \in {"hit", "fetched", "failed"}
      /\ rcall[r].primary = "hit" => rcall[r].result = rcall[r].seenNbu.rate
      /\ rcall[r].primary = "fetched" => rcall[r].result = NbuRateOn(rcall[r].date)
      /\ rcall[r].result = RateError <=> rcall[r].primary = "failed"

RateFallbackWitness ==
  \E r \in RCalls :
    /\ rcall[r].pc = "done" /\ rcall[r].monoFailed
    /\ rcall[r].primary = "fetched"
    /\ rcall[r].result = NbuRateOn(getDateOnly(rcall[r].monoLookupAt))

(***************************************************************************)
(* C7  Historical cache: a getNbuRate(d) that finds the entry of d stored  *)
(* and unexpired returns its rate without a call to the primary provider;  *)
(* and from the moment a getNbuRate(d) has fetched and stored a rate until *)
(* 180 days later, the cache answers d with that rate.                     *)
(***************************************************************************)
HistoricalCache ==
  \A r \in RCalls :
    /\ (rcall[r].pc = "done" /\ rcall[r].seenNbu # NoEntry
          /\ rcall[r].seenNbu.expiresAt > rcall[r].nbuLookupAt) =>
         /\ rcall[r].result = rcall[r].seenNbu.rate
         /\ rcall[r].nbuRequests = 0
    /\ (rcall[r].pc = "done" /\ rcall[r].primary = "fetched"
          /\ now < rcall[r].savedAt + CACHE_DURATION_DAYS * HoursPerDay) =>
         /\ findOne("nbu", rcall[r].date) # NoEntry
         /\ findOne("nbu", rcall[r].date).rate = rcall[r].result

HistoricalCacheWitness ==
  \E r \in RCalls :
    /\ rcall[r].pc = "done" /\ rcall[r].kind = "nbu" /\ rcall[r].primary = "hit"
    /\ rcall[r].nbuLookupAt > rcall[r].seenNbu.cachedAt + MONOBANK_CACHE_HOURS
    /\ rcall[r].nbuRequests = 0

(***************************************************************************)
(* C8  Live-rate expiry: a getMonobankBuyRate(today) answers from the      *)
(* cache only from an entry stored less than 6 hours before and not yet    *)
(* expired; when the stored entry has expired (or none is stored) it calls *)
(* the secondary provider; and no lookup of either cache returns an entry  *)
(* whose expiresAt is not later than the time of the lookup.               *)
(***************************************************************************)
LiveRateExpiry ==
  \A r \in RCalls :
    /\ rcall[r].source = "monoCache" =>
         /\ rcall[r].seenMono # NoEntry
         /\ rcall[r].result = rcall[r].seenMono.rate
         /\ rcall[r].seenMono.expiresAt > rcall[r].monoLookupAt
         /\ rcall[r].monoLookupAt < rcall[r].seenMono.cachedAt + MONOBANK_CACHE_HOURS
         /\ rcall[r].monoRequests = 0
    /\ (rcall[r].live /\ ~ (rcall[r].seenMono.expiresAt > rcall[r].monoLookupAt)) =>
         /\ rcall[r].source # "monoCache"
         /\ rcall[r].pc = "monoGet" \/ rcall[r].monoRequests = 1
    /\ rcall[r].source = "nbuCache" =>
         rcall[r].seenNbu.expiresAt > rcall[r].nbuLookupAt

LiveRateExpiryWitness ==
  \E r \in RCalls :
    /\ rcall[r].live /\ rcall[r].pc = "done" /\ rcall[r].source = "monoApi"
    /\ rcall[r].seenMono # NoEntry
    /\ rcall[r].seenMono.expiresAt = rcall[r].monoLookupAt
    /\ rcall[r].seenMono.date = rcall[r].date

(***************************************************************************)
(* The notification properties.                                            *)
(***************************************************************************)
\* two scheduled times with no scheduled time between them
Consecutive(s, t) ==
  s < t /\ \A h \in (s + 1)..(t - 1) : ~IsCronHour(h)

\* C9: a live-rate entry expires sooner than the sweeps follow one another, so
\* two consecutive scheduled sweeps are never served from the same cached
\* live-rate entry
LiveRateFreshness ==
  \A a \in served, b \in served :
    Consecutive(a.cron, b.cron) => a.entry # b.entry

\* C10: two checks for one owner that start less than six hours apart, be
\* they scheduled or manual, one after the other or overlapping, deliver at
\* most one P&L notification between them
NotificationThrottling ==
  \A i \in DOMAIN sent, j \in DOMAIN sent :
    (i < j /\ sent[i].userId = sent[j].userId)
      => ~ (sent[j].startedAt - sent[i].startedAt < MIN_NOTIFICATION_INTERVAL_HOURS
            /\ sent[i].startedAt - sent[j].startedAt < MIN_NOTIFICATION_INTERVAL_HOURS)

\* C10 as amended: a scheduled check delivers no P&L notification less than
\* six hours after a notification that the owner's state had recorded when
\* the check compared the times; the manual test is not throttled
ScheduledThrottling ==
  \A j \in DOMAIN sent :
    sent[j].kind = "sweep" =>
      \A i \in 1..sent[j].prior :
        sent[i].ref = sent[j].ref
          => sent[j].at - sent[i].at >= MIN_NOTIFICATION_INTERVAL_HOURS

\* a scheduled check has delivered after an earlier notification of the owner,
\* and a later scheduled check of the owner has been refused as too soon
ScheduledThrottlingWitness ==
  /\ \E j \in DOMAIN sent : sent[j].kind = "sweep" /\ sent[j].prior > 0
       /\ \E i \in 1..sent[j].prior : sent[i].ref = sent[j].ref
  /\ check[Sweep].outcome = "tooSoon"

\* the owners whose lots sum to nothing in the ledger the runs value
Unfunded == {userId \in Owners : getBalance(userId) = 0}

\* C11 as amended: a check for an owner whose balance is 0 delivers no P&L
\* notification and leaves the owner's lastNotifiedPnL, lastNotifiedRate and
\* lastNotificationTime as they were; a scheduled check sends the owner no
\* message at all, a manual test only the notice that there is no balance
ZeroBalanceNeverEmits ==
  /\ \A i \in DOMAIN sent : sent[i].userId \notin Unfunded
  /\ \A ref \in DOMAIN stateObjs :
       stateObjs[ref].userId \in Unfunded
         => stateObjs[ref] = NewState(stateObjs[ref].userId)
  /\ \A p \in Checks :
       check[p].userId \in Unfunded => check[p].pc # "send"
  /\ check[Sweep].pc # "notice" /\ check[Sweep].outcome # "noticed"

\* C11: a check, scheduled or manual, for an owner whose balance is 0 sends
\* the owner no message and leaves the owner's notification state unchanged
ZeroBalanceSilent ==
  /\ ZeroBalanceNeverEmits
  /\ \A p \in Checks :
       check[p].userId \in Unfunded => check[p].outcome # "noticed"

\* a scheduled check and a manual test have both met a balance of 0
ZeroBalanceWitness ==
  /\ Unfunded # {}
  /\ check[Sweep].outcome = "noBalance"
  /\ check[Test].outcome = "noticed" /\ check[Test].userId \in Unfunded
  /\ stateObjs # <<>>

\* one step of the sweep: it ends only when no registered owner is left to
\* visit, and a new check is that of the next registered owner in the Map
SweepVisitsAll ==
  LET a == check[Sweep]
      b == check'[Sweep]
      from == IF a.pc \in {"idle", "done"} THEN 1 ELSE a.idx
  IN /\ (a.pc \notin {"idle", "done"} /\ b.pc = "done")
          => NextEntries(userStates, a.idx) = {}
     /\ (a.pc \in {"idle", "done"} /\ b.pc = "done" /\ b # a)
          => Size(userStates) = 0
     /\ (b.pc = "find" /\ b.idx # a.idx)
          => /\ b.idx - 1 \in DOMAIN userStates
             /\ b.userId = userStates[b.idx - 1].userId
             /\ \A i \in from..(b.idx - 2) : userStates[i].userId = 0

\* C12: in one checkAndNotify sweep a failure while one registered owner is
\* processed does not stop the sweep: every other owner registered at its
\* start is still checked, and the sweep completes without raising an error
SweepIsolation == [][SweepVisitsAll]_vars

\* the check of the first registered owner has failed and the sweep has gone
\* on to the check of the second
SweepIsolationWitness ==
  /\ Len(userStates) = 2
  /\ check[Sweep].pc = "find"
  /\ check[Sweep].outcome = "error"
  /\ check[Sweep].userId = userStates[2].userId

(***************************************************************************)
(* Further ledger properties.                                              *)
(***************************************************************************)
\* one step keeps every lot, with the fields its acquisition gave it
LotsKeepCostBasis ==
  /\ Len(incomes') >= Len(incomes)
  /\ \A i \in DOMAIN incomes :
       /\ incomes'[i].userId = incomes[i].userId
       /\ incomes'[i].amountUsd = incomes[i].amountUsd
       /\ incomes'[i].nbuRate = incomes[i].nbuRate
       /\ incomes'[i].taxBaseUah = incomes[i].taxBaseUah
       /\ incomes'[i].date = incomes[i].date

\* C13: once a lot is created its amountUsd, nbuRate, taxBaseUah and date
\* never change and the lot is never deleted, whatever calls follow; sellUsd
\* changes only remainingUsd
CostBasisImmutable == [][LotsKeepCostBasis]_vars

\* a lot has been sold from, in part or in whole, and another acquired after it
CostBasisImmutableWitness ==
  /\ Len(incomes) >= 2
  /\ \E i \in DOMAIN incomes : incomes[i].remainingUsd < incomes[i].amountUsd
  /\ sales # <<>>

\* C14: in every reachable state every lot has 0 <= remainingUsd <= amountUsd,
\* whatever sequence or interleaving of addUsd and sellUsd calls led to it
LotBounds ==
  \A i \in DOMAIN incomes :
    0 <= incomes[i].remainingUsd /\ incomes[i].remainingUsd <= incomes[i].amountUsd

\* two overlapping sales have both written the lot: more is recorded as sold
\* than was acquired
LotBoundsWitness ==
  /\ \E i \in DOMAIN incomes : incomes[i].remainingUsd = 0
  /\ \E userId \in Owners : SoldTotal(userId) > AcquiredTotal(userId)

\* one step lowers or keeps the remainingUsd of every lot
RemainingNotRaised ==
  \A i \in DOMAIN incomes : incomes'[i].remainingUsd <= incomes[i].remainingUsd

\* C15: the stored remainingUsd of a lot never increases from one state to
\* the next, also when two sellUsd calls of one owner overlap and each writes
\* back a value computed from its own earlier read of the lot
RemainingMonotone == [][RemainingNotRaised]_vars

\* the quantity the returned sale of call c took from lot i
Taken(c, i) == call[c].before[i] - incomes[i].remainingUsd

RECURSIVE SumTaken(_, _)
SumTaken(c, i) ==
  IF i > Len(call[c].before) THEN 0 ELSE Taken(c, i) + SumTaken(c, i + 1)

\* (quantity taken / lot.amountUsd) * lot.taxBaseUah, summed over the lots
RECURSIVE SumTakenBasis(_, _)
SumTakenBasis(c, i) ==
  IF i > Len(call[c].before) THEN 0
  ELSE (Taken(c, i) * incomes[i].taxBaseUah) \div incomes[i].amountUsd
       + SumTakenBasis(c, i + 1)

Succeeded(c, op) == Returned(c, op) /\ call[c].result.success

\* C16: with calls run one at a time, the taxBaseUah of a successful sellUsd
\* is the sum over the lots it consumed of (quantity taken from the lot /
\* lot.amountUsd) * lot.taxBaseUah, and the quantities taken sum to the
\* quantity sold
ProportionalCostBasis ==
  \A c \in Calls :
    Succeeded(c, "sell") =>
      /\ SumTaken(c, 1) = call[c].amountUsd
      /\ \A i \in DOMAIN call[c].before : Taken(c, i) >= 0
      /\ call[c].result.taxBaseUah = SumTakenBasis(c, 1)
      /\ sales[Len(sales)].taxBaseUah = SumTakenBasis(c, 1)

\* a successful sale has consumed two lots
ProportionalCostBasisWitness ==
  \E c \in Calls : Succeeded(c, "sell") /\ Cardinality(Decremented(c)) = 2

WellFormedLot ==
  \A c \in Calls :
    Succeeded(c, "add") =>
      /\ Len(incomes) = Len(call[c].before) + 1
      /\ \A i \in DOMAIN call[c].before : incomes[i].remainingUsd = call[c].before[i]
      /\ LET lot == incomes[Len(incomes)]
         IN /\ lot.userId = call[c].userId
            /\ lot.date = call[c].date
            /\ lot.amountUsd = call[c].amountUsd
            /\ lot.remainingUsd = call[c].amountUsd
            /\ lot.nbuRate = NbuRateOn(call[c].date)
            /\ lot.nbuRate \notin MonoRates
            /\ lot.taxBaseUah = call[c].amountUsd * lot.nbuRate
            /\ call[c].result.rate = lot.nbuRate
            /\ call[c].result.taxBaseUah = lot.taxBaseUah
      /\ call[c].result.newBalance = BalanceBefore(c) + call[c].amountUsd

\* a successful acquisition of more than one unit by an owner who held some
WellFormedLotWitness ==
  \E c \in Calls :
    /\ Succeeded(c, "add")
    /\ call[c].amountUsd > 1
    /\ BalanceBefore(c) > 0

(***************************************************************************)
(* Further rate properties.                                                *)
(***************************************************************************)
\* the time at which a getMonobankBuyRate call compared its date with today
StartedAt(rc) == IF rc.live THEN rc.monoLookupAt ELSE rc.nbuLookupAt

\* a getMonobankBuyRate call whose date was not the day it was called on
OtherDayCall(rc) ==
  /\ rc.kind = "mono"
  /\ rc.pc # "idle"
  /\ rc.date # getDateOnly(StartedAt(rc))

MonobankEntries(entries) == {e \in entries : e.provider = "monobank"}

\* after a step, a call for another day has asked the primary side only, its
\* result is getNbuRate's, and its own step left the Monobank entries alone
PrimaryOnlyStep ==
  \A r \in RCalls :
    OtherDayCall(rcall'[r]) =>
      LET rc == rcall'[r]
      IN /\ ~ rc.live
         /\ rc.monoRequests = 0
         /\ rc.monoLookupAt = 0
         /\ rc.seenMono = NoEntry
         /\ rc.source \in {"none", "nbuCache", "nbuApi", "error"}
         /\ rc.source = "nbuCache" =>
              /\ rc.seenNbu.provider = "nbu" /\ rc.seenNbu.date = rc.date
              /\ rc.result = rc.seenNbu.rate
              /\ rc.nbuRequests = 0
         /\ rc.source = "nbuApi" => rc.result = NbuRateOn(rc.date)
         /\ rc.source = "error" => rc.result = RateError /\ rc.primary = "failed"
         /\ rcall'[r] # rcall[r] => MonobankEntries(cache') = MonobankEntries(cache)

\* C19: for a date whose calendar day is not today, getMonobankBuyRate(date)
\* returns what getNbuRate(date) returns, and neither calls the secondary
\* provider nor reads or writes a secondary-provider cache entry
PrimaryOnlyOtherDays == [][PrimaryOnlyStep]_vars

\* a call for yesterday has returned the primary provider's rate while the
\* cache held a Monobank entry
PrimaryOnlyWitness ==
  \E r \in RCalls :
    /\ OtherDayCall(rcall[r])
    /\ rcall[r].pc = "done"
    /\ rcall[r].source = "nbuApi"
    /\ MonobankEntries(cache) # {}

(***************************************************************************)
(* Input validation.                                                       *)
(***************************************************************************)
\* after a step, a command with a quantity <= 0 has been answered as invalid
\* in the step that took it: it has obtained no rate and made no service
\* call, and the step left the lots, the sale records and the cache alone
InvalidRejectedStep ==
  \A c \in Calls :
    (call'[c].pc # "idle" /\ call'[c].amountUsd <= 0) =>
      /\ call'[c].pc = "done"
      /\ call'[c].result = InvalidResult
      /\ call'[c].rate = 0
      /\ call'[c].updatedIncomes = <<>>
      /\ call'[c] # call[c] => incomes' = incomes /\ sales' = sales /\ cache' = cache

RateLookupFailed(c) ==
  IF call[c].pc = "done" THEN call[c].result.kind = "rate"
  ELSE call[c].pc # "idle" /\ call[c].rate = RateError

\* C21: with calls run one at a time, an addUsd whose primary rate lookup
\* failed has returned success = false, has created no lot, and the owner's
\* balance is what it was before the call
FailedAcquisitionNoTrace ==
  \A c \in Calls :
    (call[c].op = "add" /\ RateLookupFailed(c)) =>
      /\ call[c].pc = "done"
      /\ ~ call[c].result.success
      /\ Len(incomes) = Len(call[c].before)
      /\ \A i \in DOMAIN incomes : incomes[i].remainingUsd = call[c].before[i]
      /\ getBalance(call[c].userId) = BalanceBefore(c)

\* the rate lookup of an acquisition by an owner who holds a lot has failed
FailedAcquisitionWitness ==
  \E c \in Calls :
    /\ call[c].op = "add" /\ call[c].pc = "done"
    /\ call[c].result.kind = "rate"
    /\ BalanceBefore(c) > 0

(***************************************************************************)
(* Valuation.                                                              *)
(***************************************************************************)
RECURSIVE SumOf(_, _)
SumOf(f, S) ==
  IF S = {} THEN 0
  ELSE LET i == CHOOSE j \in S : TRUE IN f[i] + SumOf(f, S \ {i})

\* the sum of remainingUsd over the owner's lots with remainingUsd > 0
HeldUsd(userId) ==
  SumOf([i \in DOMAIN incomes |-> incomes[i].remainingUsd], Matching(userId))

\* the sum over those lots of (remainingUsd / amountUsd) * taxBaseUah
HeldBasis(userId) ==
  SumOf([i \in DOMAIN incomes |->
           (incomes[i].remainingUsd * incomes[i].taxBaseUah) \div incomes[i].amountUsd],
        Matching(userId))

\* the find of getStatus answers in this step
FindAnswers(p) == check[p].pc = "find" /\ check'[p].pc = "rate"

\* getStatus returns its result in this step
StatusReturns(p) ==
  /\ check[p].kind = "status" /\ check[p].pc = "rateWait"
  /\ check'[p].pc = "done" /\ check'[p].outcome = "ok"

ValuationStep ==
  \A p \in Checks :
    /\ FindAnswers(p) =>
         /\ check'[p].balanceUsd = HeldUsd(check[p].userId)
         /\ check'[p].balanceUsd = getBalance(check[p].userId)
         /\ check'[p].taxBaseUah = HeldBasis(check[p].userId)
    /\ StatusReturns(p) =>
         /\ check'[p].balanceUsd = check[p].balanceUsd
         /\ check'[p].taxBaseUah = check[p].taxBaseUah
         /\ check'[p].rate = rcall[p].result
         /\ check'[p].currentValueUah = check'[p].balanceUsd * check'[p].rate
         /\ check'[p].unrealizedProfitUah =
              check'[p].currentValueUah - check'[p].taxBaseUah

\* C22: getStatus(owner) returns balanceUsd = the sum of remainingUsd over
\* the owner's lots with remainingUsd > 0, taxBaseUah = the sum over those
\* lots of (remainingUsd / amountUsd) * taxBaseUah, currentValueUah =
\* balanceUsd * live rate and unrealizedProfitUah = currentValueUah -
\* taxBaseUah; balanceUsd is getBalance(owner) of the state that was read
ValuationFormulas == [][ValuationStep]_vars

\* a status of owner 1 read while one of the lots was partly sold
ValuationWitness ==
  \E p \in Checks :
    /\ check[p].kind = "status" /\ check[p].pc = "done" /\ check[p].outcome = "ok"
    /\ check[p].balanceUsd = 1
    /\ check[p].taxBaseUah = NbuRateOn(2)
    /\ check[p].rate \in SweepQuotes
    /\ check[p].unrealizedProfitUah < 0

\* a getStatus that found no lot with remainingUsd > 0 ends in this step
EmptyStatusEnds(p) ==
  /\ check[p].kind = "status" /\ check[p].pc = "rateWait"
  /\ check[p].balanceUsd = 0
  /\ check'[p].pc = "done"

\* C23: for an owner with no lot having remainingUsd > 0, getStatus
\* completes without error and returns balanceUsd, taxBaseUah,
\* currentValueUah and unrealizedProfitUah all 0, whether or not the live
\* rate can be obtained
EmptyLedgerValuation ==
  [][\A p \in Checks :
       EmptyStatusEnds(p) =>
         /\ check'[p].outcome = "ok"
         /\ check'[p].balanceUsd = 0
         /\ check'[p].taxBaseUah = 0
         /\ check'[p].currentValueUah = 0
         /\ check'[p].unrealizedProfitUah = 0]_vars

\* C24: a step of getStatus (its find, its rate lookup, its return) creates,
\* modifies or deletes no lot and no sale record
ValuationPureRead ==
  [][(check' # check \/ rcall' # rcall) => (incomes' = incomes /\ sales' = sales)]_vars

\* a status of owner 1 has returned while a sale of owner 1 was writing lots
ValuationPureReadWitness ==
  \E p \in Checks :
    /\ check[p].kind = "status" /\ check[p].pc = "done" /\ check[p].outcome = "ok"
    /\ check[p].userId = 1
    /\ call[1].op = "sell" /\ call[1].pc = "sellSave"
    /\ \E i \in DOMAIN incomes : incomes[i].remainingUsd < call[1].before[i]

\* a sellUsd of the owner is between its balance check and its return
SellInProgress(c, userId) ==
  /\ call[c].op = "sell"
  /\ call[c].userId = userId
  /\ call[c].pc \in {"sellRate", "sellFind", "sellSave", "sellBalance"}

\* C25: a getStatus for an owner that reads the lots while a sellUsd of the
\* same owner is in progress reports the balance before the sale or the
\* balance after the whole sale, never one in which only some of the
\* consumed lots have been decremented
NoPartialDisposal ==
  [][\A p \in Checks, c \in Calls :
       (FindAnswers(p) /\ SellInProgress(c, check[p].userId)) =>
         check'[p].balanceUsd \in
           {BalanceBefore(c), BalanceBefore(c) - call[c].amountUsd}]_vars

(***************************************************************************)
(* Termination.                                                            *)
(***************************************************************************)
\* C26: every call to a provider returns a response or is turned into a
\* transport failure, so a getStatus that has asked for the rate always
\* eventually completes, also when the provider never answers
UpstreamBounded ==
  (check[StatusSlot].pc = "rateWait") ~> (check[StatusSlot].pc = "done")

(***************************************************************************)
(* Further notification properties.                                        *)
(***************************************************************************)
\* C27: once unregisterUser(owner) has returned and until the owner is
\* registered again, no P&L notification is emitted for the owner, also when
\* a sweep that had started on the owner is still running: every
\* notification emitted is for an owner who is in the registry at that time
UnregistrationEffective ==
  [][\A j \in DOMAIN sent' :
       j > Len(sent) => Has(userStates', sent'[j].userId)]_vars

\* the secondary provider has answered the call, without a quote
NoQuoteCall(rc) ==
  /\ rc.live
  /\ rc.monoRequests > 0
  /\ ~ rc.monoFailed
  /\ rc.rate = 0

\* after a step, a call that the provider answered without a quote has
\* failed, having asked the primary side nothing; the step stored nothing
MissingQuoteStep ==
  \A r \in RCalls :
    NoQuoteCall(rcall'[r]) =>
      /\ rcall'[r].pc = "done"
      /\ rcall'[r].result = RateError
      /\ rcall'[r].source = "error"
      /\ rcall'[r].nbuRequests = 0
      /\ rcall'[r].nbuLookupAt = 0
      /\ rcall'[r].primary = "none"
      /\ rcall'[r] # rcall[r] => cache' = cache

\* C28: when the secondary provider answers for today without a USD/UAH
\* pair or without rateBuy, getMonobankBuyRate(today) fails with an error,
\* does not fall back to the primary provider and caches nothing
MissingQuoteFails == [][MissingQuoteStep]_vars

\* a call for today has failed on an answer without a quote while the cache
\* held the primary rate of today
MissingQuoteWitness ==
  \E r \in RCalls :
    /\ NoQuoteCall(rcall[r])
    /\ rcall[r].pc = "done"
    /\ findOne("nbu", rcall[r].date) # NoEntry

\* C29: lastNotifiedPnL, lastNotifiedRate and lastNotificationTime of an
\* owner change only in a step that delivers a notification to the owner;
\* when the send fails, the state keeps its values
StateOnlyOnEmission ==
  [][\A i \in DOMAIN stateObjs :
       stateObjs'[i] # stateObjs[i] =>
         /\ Len(sent') = Len(sent) + 1
         /\ sent'[Len(sent')].ref = i]_vars

\* the scheduled check has the status of an owner with a balance whose last
\* notification is at least the minimum interval old, and decides
SweepDecides(rec) ==
  /\ rec.pc = "rateWait"
  /\ rcall[Sweep].pc = "done" /\ rcall[Sweep].result # RateError
  /\ rec.balanceUsd # 0
  /\ now - stateObjs[rec.ref].lastNotificationTime >= MIN_NOTIFICATION_INTERVAL_HOURS
  /\ check'[Sweep] # rec

EmissionStep ==
  LET rec == check[Sweep]
  IN /\ SweepDecides(rec) =>
          /\ check'[Sweep].pc = "send"
          /\ check'[Sweep].userId = rec.userId /\ check'[Sweep].ref = rec.ref
     /\ (rec.pc = "send" /\ check'[Sweep] # rec) =>
          /\ stateObjs'[rec.ref].lastNotificationTime = now
          /\ stateObjs'[rec.ref].lastNotifiedRate = rec.rate
          /\ stateObjs'[rec.ref].lastNotifiedPnL =
               rec.balanceUsd * rec.rate - rec.taxBaseUah
          /\ sent' # sent =>
               /\ Len(sent') = Len(sent) + 1
               /\ sent'[Len(sent')].userId = rec.userId
               /\ sent'[Len(sent')].at = now

SweepEmitsStep ==
  LET a == check[Sweep]
  IN (/\ a.kind = "sweep"
      /\ a.pc = "rateWait"
      /\ rcall[Sweep].pc = "done"
      /\ rcall[Sweep].result # RateError
      /\ a.balanceUsd > 0
      /\ Has(userStates, a.userId)
      /\ check'[Sweep] # a)
       => check'[Sweep].pc = "send"

\* C31: with sweeps at 08:00, 12:00, 16:00 and 20:00 and an owner who stays
\* registered with a positive balance, each of the four daily sweeps emits a
\* P&L notification to that owner
FourDailyNotifications == [][SweepEmitsStep]_vars

\* one step keeps the state object of every owner who is in the Map before
\* and after it, sets no lastNotificationTime but to the time of the step,
\* and creates a state object only for an owner who was not in the Map
RegistrationStep ==
  /\ \A userId \in Owners :
       (Has(userStates, userId) /\ Has(userStates', userId))
         => Get(userStates', userId) = Get(userStates, userId)
  /\ \A ref \in DOMAIN stateObjs :
       stateObjs'[ref] # stateObjs[ref]
         => stateObjs'[ref].lastNotificationTime = now
  /\ Len(stateObjs') # Len(stateObjs)
       => /\ Len(stateObjs') = Len(stateObjs) + 1
          /\ \E userId \in Owners :
               /\ ~Has(userStates, userId)
               /\ Get(userStates', userId) = Len(stateObjs')
               /\ stateObjs'[Len(stateObjs')] = NewState(userId)

\* C32: registerUser for an owner who is already registered changes nothing:
\* it never resets lastNotificationTime to the 'never notified' sentinel;
\* only the first registration, or one after unregisterUser, creates state
\* with the sentinel
RegistrationIdempotent == [][RegistrationStep]_vars

\* a manual test came from an owner who was registered and had been notified
\* by a sweep, and has run on the state object the sweep had updated; and an
\* owner who was unregistered has been given a second state object
RegistrationIdempotentWitness ==
  /\ Len(stateObjs) = 2
  /\ \E i \in DOMAIN userStates : userStates[i] = Deleted
  /\ \E userId \in Owners :
       Has(userStates, userId) /\ Get(userStates, userId) = Len(stateObjs)
  /\ check[Test].pc # "idle"
  /\ \E i \in DOMAIN sent :
       /\ sent[i].kind = "sweep"
       /\ sent[i].ref = check[Test].ref
       /\ sent[i].at < check[Test].startedAt
       /\ stateObjs[sent[i].ref].lastNotificationTime # Epoch


\* C33: when two lots of one owner have the same acquisition date, sellUsd
\* consumes the lot that was created first before it touches the one created
\* later: after a successful sellUsd a lot was decremented only if every lot
\* of the owner with the same date that was inserted before it has
\* remainingUsd 0
FifoTiesInsertionOrder ==
  \A c \in Calls :
    (Returned(c, "sell") /\ call[c].result.success) =>
      \A i \in Decremented(c) : \A j \in DOMAIN incomes :
        (/\ incomes[j].userId = incomes[i].userId
         /\ incomes[j].date = incomes[i].date
         /\ j < i)
          => incomes[j].remainingUsd = 0


\* the provider whose key a rate call writes, or has written
WriteKey(rc) ==
  IF rc.pc = "monoSave" \/ rc.source = "monoApi" THEN "monobank" ELSE "nbu"

\* the rates a provider serves for a date
ServedRates(provider, date) ==
  IF provider = "monobank" THEN MonoRates ELSE {NbuRateOn(date)}

\* the entries stored under a key
EntriesOf(entries, provider, date) ==
  {e \in entries : e.provider = provider /\ e.date = date}

\* caller r writes the entry of a key that caller q, who had missed the cache
\* as r had, has fetched and written before
SecondWrite(r, q) ==
  /\ r # q
  /\ rcall[r].pc \in {"monoSave", "nbuSave"}
  /\ rcall'[r].pc = "done" /\ rcall'[r].source \in {"monoApi", "nbuApi"}
  /\ rcall[q].pc = "done" /\ rcall[q].source \in {"monoApi", "nbuApi"}
  /\ WriteKey(rcall[q]) = WriteKey(rcall[r])
  /\ rcall[q].date = rcall[r].date

CacheRaceStep ==
  \A r \in RCalls, q \in RCalls :
    SecondWrite(r, q) =>
      LET provider == WriteKey(rcall[r])
          date == rcall[r].date
      IN /\ Cardinality(EntriesOf(cache', provider, date)) = 1
         /\ \A e \in EntriesOf(cache', provider, date) : e.rate = rcall'[r].result
         /\ rcall'[r].result \in ServedRates(provider, date)
         /\ rcall'[q].result \in ServedRates(provider, date)
         /\ rcall'[q] = rcall[q]

\* C34: when two callers miss the cache for the same (provider, currency,
\* date) key at the same time and both fetch upstream and write, the cache
\* ends with exactly one entry for that key holding the last writer's rate,
\* both callers return a rate the provider served, and neither caller fails
BenignCacheRace == [][CacheRaceStep]_vars

\* two callers have missed the cache for today's live rate, have been quoted
\* different rates and have both written; the entry holds one of the rates
BenignCacheRaceWitness ==
  /\ \A r \in RCalls : rcall[r].pc = "done" /\ rcall[r].source = "monoApi"
  /\ rcall[1].date = rcall[2].date
  /\ rcall[1].result # rcall[2].result
  /\ \A r \in RCalls : rcall[r].seenMono = NoEntry
  /\ Cardinality(EntriesOf(cache, "monobank", rcall[1].date)) = 1


\* a getMonobankBuyRate call for today that fell back to the primary provider
\* and has returned its rate
FellBack(rc) ==
  /\ rc.pc = "done"
  /\ rc.live /\ rc.monoFailed
  /\ rc.source \in {"nbuCache", "nbuApi"}

\* one step stores under the Monobank key none but a rate Monobank quoted; a
\* call on the fallback path adds or changes no Monobank entry; and the call
\* for the same day that follows a call that fell back asks Monobank again
FallbackStep ==
  /\ \A e \in MonobankEntries(cache') :
       e \in cache \/ e.rate \in MonoRates
  /\ \A r \in RCalls :
       (rcall[r].monoFailed /\ rcall'[r] # rcall[r] /\ rcall'[r].monoFailed)
         => MonobankEntries(cache') = MonobankEntries(cache)
  /\ \A r \in RCalls :
       (/\ FellBack(rcall[r])
        /\ rcall'[r] # rcall[r]
        /\ rcall'[r].live /\ rcall'[r].date = rcall[r].date
        /\ Stored("monobank", rcall[r].date) = NoEntry)
         => rcall'[r].pc = "monoGet"

\* C35: every cache entry stored under the secondary provider's key holds a
\* rate that the secondary provider itself returned; when
\* getMonobankBuyRate(today) falls back to the primary provider it writes no
\* secondary-provider entry, so the next call for today tries the secondary
\* provider again
FallbackNeverCachedAsLive == [][FallbackStep]_vars

\* a second call for today in a row has asked Monobank, has not been answered
\* and has been served the rate that the first one's fallback fetched from the
\* primary provider and stored under the primary key; no Monobank entry is
\* stored
FallbackWitness ==
  \E r \in RCalls :
    /\ FellBack(rcall[r])
    /\ rcall[r].source = "nbuCache"
    /\ rcall[r].monoRequests = 1
    /\ rcall[r].seenNbu.cachedAt = rcall[r].monoLookupAt
    /\ rstarted = 2
    /\ Stored("nbu", rcall[r].date) = rcall[r].seenNbu
    /\ MonobankEntries(cache) = {}


\* the sum of taxBaseUah over the owner's documents
RECURSIVE SumTaxBase(_, _, _)
SumTaxBase(docs, userId, i) ==
  IF i > Len(docs) THEN 0
  ELSE (IF docs[i].userId = userId THEN docs[i].taxBaseUah ELSE 0)
       + SumTaxBase(docs, userId, i + 1)

\* no call is under way and no sellUsd has failed between its saves: what
\* the owner's lots have lost is what the owner's sale records hold
AfterSuccessfulCalls(userId) ==
  /\ \A c \in Calls : call[c].pc \in {"idle", "done"}
  /\ AcquiredTotal(userId) - SoldTotal(userId) = getBalance(userId)

\* C36: after any sequence of addUsd and successful sellUsd calls for one
\* owner run one at a time, the sum of taxBaseUah over the owner's sale
\* records plus the taxBaseUah that getStatus reports equals the sum of
\* taxBaseUah over all of the owner's lots
CostBasisConserved ==
  \A userId \in Owners :
    AfterSuccessfulCalls(userId) =>
      SumTaxBase(sales, userId, 1) + StatusTaxBase(incomes, userId, 1)
        = SumTaxBase(incomes, userId, 1)

\* an owner has sold; a lot of the owner is used up and another is partly sold
CostBasisConservedWitness ==
  \E userId \in Owners :
    /\ AfterSuccessfulCalls(userId)
    /\ \E i \in DOMAIN sales : sales[i].userId = userId
    /\ \E i \in DOMAIN incomes :
         incomes[i].userId = userId /\ incomes[i].remainingUsd = 0
    /\ \E i \in DOMAIN incomes :
         /\ incomes[i].userId = userId
         /\ 0 < incomes[i].remainingUsd
         /\ incomes[i].remainingUsd < incomes[i].amountUsd

============================================================================
